---- MODULE Spec2Model ----
(***************************************************************************)
(* Model of src/infer.py: the batch inference run of main() and the three  *)
(* task functions load_image, infer and save_prediction_image.             *)
(*                                                                         *)
(* File names are sequences of one-character strings, so that Path.suffix, *)
(* Path.stem and str.lower are computed as pathlib and str compute them.   *)
(* Scores are small naturals; softmax is computed in fixed point with      *)
(* base-2 exponentials and a truncating division.                          *)
(***************************************************************************)
EXTENDS Integers, Sequences, FiniteSets, TLC

\* ------------------------------------------------------------------ bounds

\* Longest directory listing explored.
MaxFiles == 3

\* Largest raw score a model output holds.
MaxScore == 1

\* ------------------------------------------------- program constants, tables

\* infer.py:72-73, the class label table.
class_labels ==
    << "Beagle", "Boxer", "Bulldog", "Dachshund", "German_Shepherd",
       "Golden_Retriever", "Labrador_Retriever", "Poodle", "Rottweiler",
       "Yorkshire_Terrier" >>

\* Length of the class label table (infer.py:72-73).
NumClasses == 10

\* infer.py:135, the extensions main() keeps.
KeptSuffixes ==
    { <<".", "j", "p", "g">>, <<".", "j", "p", "e", "g">>, <<".", "p", "n", "g">> }

\* Resolution of the fixed-point probabilities softmax returns (infer.py:69).
ProbScale == 1000

Devices == {"cpu", "cuda"}

\* ------------------------------------------------------- pure helpers

UpperChars ==
    << "A", "B", "C", "D", "E", "F", "G", "H", "I", "J", "K", "L", "M",
       "N", "O", "P", "Q", "R", "S", "T", "U", "V", "W", "X", "Y", "Z" >>

LowerChars ==
    << "a", "b", "c", "d", "e", "f", "g", "h", "i", "j", "k", "l", "m",
       "n", "o", "p", "q", "r", "s", "t", "u", "v", "w", "x", "y", "z" >>

\* str.lower on one character.
LowerChar(c) ==
    IF \E k \in 1..Len(UpperChars) : UpperChars[k] = c
    THEN LowerChars[CHOOSE k \in 1..Len(UpperChars) : UpperChars[k] = c]
    ELSE c

\* str.lower (infer.py:135).
Lower(s) == [k \in 1..Len(s) |-> LowerChar(s[k])]

\* str.rfind('.') as a 1-based position, 0 when there is no dot.
RFindDot(name) ==
    IF \E k \in 1..Len(name) : name[k] = "."
    THEN CHOOSE k \in 1..Len(name) :
            /\ name[k] = "."
            /\ \A j \in (k+1)..Len(name) : name[j] # "."
    ELSE 0

\* pathlib: a suffix exists when the last dot is neither the first nor the
\* last character of the name.
HasSuffix(name) == RFindDot(name) > 1 /\ RFindDot(name) < Len(name)

\* Path.suffix (infer.py:135).
Suffix(name) ==
    IF HasSuffix(name) THEN SubSeq(name, RFindDot(name), Len(name)) ELSE << >>

\* Path.stem (infer.py:139).
Stem(name) ==
    IF HasSuffix(name) THEN SubSeq(name, 1, RFindDot(name) - 1) ELSE name

\* The filter of infer.py:135.
IsKept(name) == Lower(Suffix(name)) \in KeptSuffixes

\* Variant of OutputFile that names the artifact after the whole file name.
OutputFileFullName(name) == name \o << "_prediction.png" >>

\* output_folder / f"{image_file.stem}_prediction.png" (infer.py:139).
OutputFile(name) == Stem(name) \o << "_prediction.png" >>

RECURSIVE Pow2(_)
Pow2(n) == IF n = 0 THEN 1 ELSE 2 * Pow2(n - 1)

RECURSIVE SumExp(_, _)
SumExp(v, n) == IF n = 0 THEN 0 ELSE Pow2(v[n]) + SumExp(v, n - 1)

\* F.softmax(output, dim=1) (infer.py:69), in fixed point.
Softmax(v) == [k \in 1..Len(v) |-> (Pow2(v[k]) * ProbScale) \div SumExp(v, Len(v))]

\* Variant of Argmax that takes the last index holding the maximum.
ArgmaxLast(p) ==
    (CHOOSE k \in 1..Len(p) :
        /\ \A j \in 1..Len(p) : p[j] <= p[k]
        /\ \A j \in (k+1)..Len(p) : p[j] < p[k]) - 1

\* torch.argmax(probabilities, dim=1).item() (infer.py:70): the first index
\* holding the maximum, as a 0-based index.
Argmax(p) ==
    (CHOOSE k \in 1..Len(p) :
        /\ \A j \in 1..Len(p) : p[j] <= p[k]
        /\ \A j \in 1..(k-1) : p[j] < p[k]) - 1

\* f"{confidence:.2f}" (infer.py:142): hundredths, ties to even.
Format2f(p) ==
    LET q == p \div (ProbScale \div 100)
        r == p % (ProbScale \div 100)
        half == (ProbScale \div 100) \div 2
    IN  IF r > half \/ (r = half /\ q % 2 = 1) THEN q + 1 ELSE q

\* utils.logging_utils.task_wrapper: logs the start and the end of the call
\* and re-raises what the wrapped function raised.
TaskWrapper(outcome) == outcome

\* ------------------------------------------------------------ input domains

\* A score vector with the given 1-based positions raised to MaxScore.
Raised(n, S) == [k \in 1..n |-> IF k \in S THEN MaxScore ELSE 0]

\* The files a directory may hold: a name, what the model scores its
\* content, and the step that fails on it ("none" for a sound image).
Catalog ==
    { [name |-> <<"d", ".", "j", "p", "g">>, fault |-> "none",
       scores |-> Raised(NumClasses, {4})],
      [name |-> <<"d", ".", "p", "n", "g">>, fault |-> "none",
       scores |-> Raised(NumClasses, {2, 8})],
      [name |-> <<"E", ".", "J", "P", "G">>, fault |-> "none",
       scores |-> Raised(NumClasses, {})],
      [name |-> <<"b", ".", "j", "p", "e", "g">>, fault |-> "decode",
       scores |-> Raised(NumClasses, {1})],
      [name |-> <<"c", ".", "p", "n", "g">>, fault |-> "forward",
       scores |-> Raised(NumClasses, {10})],
      [name |-> <<"f", ".", "J", "p", "g">>, fault |-> "render",
       scores |-> Raised(NumClasses, {6})],
      [name |-> <<"r", ".", "t", "x", "t">>, fault |-> "none",
       scores |-> Raised(NumClasses, {})],
      [name |-> <<".", "p", "n", "g">>, fault |-> "none",
       scores |-> Raised(NumClasses, {})] }

\* Directory listings in enumeration order: distinct files, at most MaxFiles.
Listings ==
    { l \in UNION { [1..n -> Catalog] : n \in 0..MaxFiles } :
        \A a, b \in 1..Len(l) : a # b => l[a].name # l[b].name }

\* cfg.ckpt_path: unset, naming no file, or naming a file.
CkptPaths == {"None", "missing", "present"}

NoImage == [src |-> 0]

NoTensor == [src |-> 0, device |-> "cpu", scores |-> << >>, fault |-> "none"]

NoModel == [src |-> "none", device |-> "cpu", training |-> TRUE]

NoRet == [raised |-> FALSE, err |-> "none", label |-> "", confidence |-> 0]

\* ---------------------------------------------------------------- state

VARIABLES
    ckpt_path,        \* cfg.ckpt_path
    input_dir,        \* the entries of the input directory, in glob order
    pc,               \* position in main() / infer()
    err,              \* the exception that ended the run, "none" otherwise
    model,            \* the model object main() holds
    grad_enabled,     \* torch's gradient mode
    grad_prev,        \* the mode torch.no_grad() saved on entry
    output_folder,    \* whether output_folder exists
    out_files,        \* files under output_folder: [path, src]
    image_files,      \* list(input_folder.glob('*'))
    globbed,          \* whether the input directory has been enumerated
    total,            \* the progress task's total, -1 before add_task
    advanced,         \* progress.advance calls so far
    status,           \* "Processed ..." lines printed: <<file, label, conf>>
    i,                \* 1-based position of the for loop in image_files
    img,              \* main's img
    img_tensor,       \* main's img_tensor
    arg,              \* infer's image_tensor
    output,           \* infer's output
    probabilities,    \* infer's probabilities
    predicted_class,  \* infer's predicted_class
    exc,              \* exception travelling out of the with block
    ret,              \* what the infer call hands back to its caller
    loaded,           \* files handed to load_image, in order
    classified,       \* files handed to infer, in order
    writes,           \* files whose artifact savefig has written, in order
    at_call           \* gradient mode, model and tensor when infer was entered

envVars == << ckpt_path, input_dir >>

inferVars == << arg, output, probabilities, predicted_class, exc, ret >>

torchVars == << grad_enabled, grad_prev >>

fsVars == << output_folder, out_files >>

progressVars == << total, advanced, status >>

loopVars == << image_files, globbed, i, img, img_tensor >>

histVars == << loaded, classified, writes, at_call >>

vars ==
    << ckpt_path, input_dir, pc, err, model, grad_enabled, grad_prev,
       output_folder, out_files, image_files, globbed, total, advanced,
       status, i, img, img_tensor, arg, output, probabilities,
       predicted_class, exc, ret, loaded, classified, writes, at_call >>

\* The state main() starts in.
Init ==
    /\ ckpt_path \in CkptPaths
    /\ input_dir \in Listings
    /\ pc = "start"
    /\ err = "none"
    /\ model = NoModel
    /\ grad_enabled = TRUE
    /\ grad_prev = TRUE
    /\ output_folder = FALSE
    /\ out_files = {}
    /\ image_files = << >>
    /\ globbed = FALSE
    /\ total = -1
    /\ advanced = 0
    /\ status = << >>
    /\ i = 0
    /\ img = NoImage
    /\ img_tensor = NoTensor
    /\ arg = NoTensor
    /\ output = << >>
    /\ probabilities = << >>
    /\ predicted_class = -1
    /\ exc = "none"
    /\ ret = NoRet
    /\ loaded = << >>
    /\ classified = << >>
    /\ writes = << >>
    /\ at_call = [grad |-> TRUE, model |-> NoModel, arg |-> NoTensor]

\* An uncaught exception leaves main().
Raise(kind) == pc' = "aborted" /\ err' = kind

\* ------------------------------------------------- the task functions

\* Variant of CkptExists that only asks whether a path is set.
CkptExistsIfSet(path) == path # "None"

\* Path(cfg.ckpt_path).exists() (infer.py:99).
CkptExists(path) == path = "present"

\* load_image (infer.py:55-62): Image.open raises on a file that is no
\* readable image; otherwise the image and its tensor, built on the cpu.
load_image(k, entry) ==
    IF entry.fault = "decode"
    THEN [raised |-> TRUE, err |-> "UnidentifiedImageError",
          img |-> NoImage, tensor |-> NoTensor]
    ELSE [raised |-> FALSE, err |-> "none",
          img |-> [src |-> k],
          tensor |-> [src |-> k, device |-> "cpu", scores |-> entry.scores,
                      fault |-> entry.fault]]

\* Variant of ToDevice that leaves the tensor where load_image built it.
ToDeviceNoMove(tensor, device) == tensor

\* img_tensor.to(model.device) (infer.py:137).
ToDevice(tensor, device) == [tensor EXCEPT !.device = device]

\* model(image_tensor) (infer.py:68): the forward pass raises when the
\* tensor is not on the model's device or the model rejects it.
Forward(m, tensor) ==
    IF tensor.device # m.device \/ tensor.fault = "forward"
    THEN [raised |-> TRUE, err |-> "RuntimeError", value |-> << >>]
    ELSE [raised |-> FALSE, err |-> "none", value |-> tensor.scores]

\* Variant of NoGradExit that restores the mode on a normal exit only.
NoGradExitOnSuccess(prev, cur, e) == IF e = "none" THEN prev ELSE cur

\* torch.no_grad().__exit__ (infer.py:67): the saved mode comes back on a
\* normal exit and on an exception alike.
NoGradExit(prev, cur, e) == prev

\* class_labels[predicted_class], probabilities[0][predicted_class]
\* (infer.py:74-76): an index past the table raises IndexError.
Lookup(p, c) ==
    IF c >= Len(class_labels)
    THEN [raised |-> TRUE, err |-> "IndexError", label |-> "", confidence |-> 0]
    ELSE [raised |-> FALSE, err |-> "none",
          label |-> class_labels[c + 1], confidence |-> p[c + 1]]

\* plt.savefig(output_path) (infer.py:85): the file at that path is
\* created or replaced.
WriteFile(files, path, k) ==
    { f \in files : f.path # path } \cup { [path |-> path, src |-> k] }

\* save_prediction_image (infer.py:79-86).
save_prediction_image(files, entry, k) ==
    IF entry.fault = "render"
    THEN [raised |-> TRUE, err |-> "RenderError", files |-> files]
    ELSE [raised |-> FALSE, err |-> "none",
          files |-> WriteFile(files, OutputFile(entry.name), k)]

\* Variant of Successor that prints the status line before saving.
SuccessorPrintFirst(p) ==
    CASE p = "load" -> "call_infer"
      [] p = "infer_done" -> "print"
      [] p = "print" -> "save"
      [] p = "save" -> "advance"
      [] p = "advance" -> "for"

\* The statement order of the loop body (infer.py:136-143).
Successor(p) ==
    CASE p = "load" -> "call_infer"
      [] p = "infer_done" -> "save"
      [] p = "save" -> "print"
      [] p = "print" -> "advance"
      [] p = "advance" -> "for"

\* Variant of TaskTotal that counts only the entries the filter keeps.
TaskTotalKept(files) ==
    Cardinality({ k \in 1..Len(files) : IsKept(files[k].name) })

\* total=len(image_files) (infer.py:132).
TaskTotal(files) == Len(files)

\* ------------------------------------------------------------ main()

\* infer.py:92-93: the log file is set up.
Start ==
    /\ pc = "start"
    /\ pc' = "check_none"
    /\ UNCHANGED << envVars, err, model, torchVars, fsVars, progressVars,
                    loopVars, inferVars, histVars >>

\* infer.py:96-97.
CheckCkptNone ==
    /\ pc = "check_none"
    /\ IF ckpt_path = "None"
       THEN Raise("ValueError")
       ELSE pc' = "check_exists" /\ err' = err
    /\ UNCHANGED << envVars, model, torchVars, fsVars, progressVars,
                    loopVars, inferVars, histVars >>

\* infer.py:99-100.
CheckCkptExists ==
    /\ pc = "check_exists"
    /\ IF ~CkptExists(ckpt_path)
       THEN Raise("FileNotFoundError")
       ELSE pc' = "instantiate" /\ err' = err
    /\ UNCHANGED << envVars, model, torchVars, fsVars, progressVars,
                    loopVars, inferVars, histVars >>

\* infer.py:103-104.
InstantiateModel ==
    /\ pc = "instantiate"
    /\ model' = [src |-> "instantiated", device |-> "cpu", training |-> TRUE]
    /\ pc' = "callbacks"
    /\ UNCHANGED << envVars, err, torchVars, fsVars, progressVars,
                    loopVars, inferVars, histVars >>

\* infer.py:106-110 (instantiate_callbacks, instantiate_loggers).
InstantiateCallbacksLoggers ==
    /\ pc = "callbacks"
    /\ pc' = "load_ckpt"
    /\ UNCHANGED << envVars, err, model, torchVars, fsVars, progressVars,
                    loopVars, inferVars, histVars >>

\* infer.py:113-114: the model is rebuilt from the checkpoint, on the device
\* the checkpoint maps to; a file that is no usable checkpoint raises.
LoadFromCheckpoint ==
    /\ pc = "load_ckpt"
    /\ \E dev \in Devices, ok \in BOOLEAN :
          IF ok /\ CkptExists(ckpt_path)
          THEN /\ model' = [src |-> "checkpoint", device |-> dev,
                            training |-> TRUE]
               /\ pc' = "input_folder"
               /\ err' = err
          ELSE /\ Raise("CheckpointLoadError")
               /\ model' = model
    /\ UNCHANGED << envVars, torchVars, fsVars, progressVars, loopVars,
                    inferVars, histVars >>

\* infer.py:117-125: the configured folder, or the downloaded sample archive
\* (a download that fails raises).
SetInputFolder ==
    /\ pc = "input_folder"
    /\ \E given \in BOOLEAN, ok \in BOOLEAN :
          IF ~given /\ ~ok
          THEN Raise("URLError")
          ELSE pc' = "mkdir" /\ err' = err
    /\ UNCHANGED << envVars, model, torchVars, fsVars, progressVars,
                    loopVars, inferVars, histVars >>

\* infer.py:127-128.
MkOutputDir ==
    /\ pc = "mkdir"
    /\ output_folder' = TRUE
    /\ pc' = "glob"
    /\ UNCHANGED << envVars, err, model, torchVars, out_files, progressVars,
                    loopVars, inferVars, histVars >>

\* infer.py:130.
GlobInput ==
    /\ pc = "glob"
    /\ image_files' = input_dir
    /\ globbed' = TRUE
    /\ pc' = "add_task"
    /\ UNCHANGED << envVars, err, model, torchVars, fsVars, progressVars,
                    i, img, img_tensor, inferVars, histVars >>

\* infer.py:131-132.
AddTask ==
    /\ pc = "add_task"
    /\ total' = TaskTotal(image_files)
    /\ pc' = "for"
    /\ UNCHANGED << envVars, err, model, torchVars, fsVars, advanced, status,
                    loopVars, inferVars, histVars >>

\* infer.py:134-135: the next entry, and the extension filter on it.
ForNext ==
    /\ pc = "for"
    /\ IF i = Len(image_files)
       THEN pc' = "done" /\ i' = i
       ELSE /\ i' = i + 1
            /\ pc' = IF IsKept(image_files[i + 1].name) THEN "load" ELSE "for"
    /\ UNCHANGED << envVars, err, model, torchVars, fsVars, progressVars,
                    image_files, globbed, img, img_tensor, inferVars,
                    histVars >>

\* infer.py:136.
LoadImage ==
    /\ pc = "load"
    /\ loaded' = Append(loaded, i)
    /\ LET r == TaskWrapper(load_image(i, image_files[i]))
       IN  IF r.raised
           THEN Raise(r.err) /\ UNCHANGED << img, img_tensor >>
           ELSE /\ img' = r.img
                /\ img_tensor' = r.tensor
                /\ pc' = Successor(pc)
                /\ err' = err
    /\ UNCHANGED << envVars, model, torchVars, fsVars, progressVars,
                    image_files, globbed, i, inferVars, classified, writes,
                    at_call >>

\* infer.py:137, the call: the tensor moved to the model's device is passed.
CallInfer ==
    /\ pc = "call_infer"
    /\ arg' = ToDevice(img_tensor, model.device)
    /\ classified' = Append(classified, i)
    /\ output' = << >>
    /\ probabilities' = << >>
    /\ predicted_class' = -1
    /\ exc' = "none"
    /\ ret' = NoRet
    /\ at_call' = [grad |-> grad_enabled, model |-> model,
                    arg |-> ToDevice(img_tensor, model.device)]
    /\ pc' = "infer_eval"
    /\ UNCHANGED << envVars, err, model, torchVars, fsVars, progressVars,
                    loopVars, loaded, writes >>

\* infer.py:137, the return: the pair is bound, or the exception leaves main.
ReturnInfer ==
    /\ pc = "infer_done"
    /\ LET r == TaskWrapper(ret)
       IN  IF r.raised
           THEN Raise(r.err)
           ELSE pc' = Successor(pc) /\ err' = err
    /\ UNCHANGED << envVars, model, torchVars, fsVars, progressVars,
                    loopVars, inferVars, histVars >>

\* infer.py:139-140.
SavePrediction ==
    /\ pc = "save"
    /\ LET r == TaskWrapper(save_prediction_image(out_files, image_files[i], i))
       IN  IF r.raised
           THEN Raise(r.err) /\ UNCHANGED << out_files, writes >>
           ELSE /\ out_files' = r.files
                /\ writes' = Append(writes, i)
                /\ pc' = Successor(pc)
                /\ err' = err
    /\ UNCHANGED << envVars, model, torchVars, output_folder, progressVars,
                    loopVars, inferVars, loaded, classified, at_call >>

\* infer.py:142.
PrintStatus ==
    /\ pc = "print"
    /\ status' = Append(status, << i, ret.label, Format2f(ret.confidence) >>)
    /\ pc' = Successor(pc)
    /\ UNCHANGED << envVars, err, model, torchVars, fsVars, total, advanced,
                    loopVars, inferVars, histVars >>

\* infer.py:143.
Advance ==
    /\ pc = "advance"
    /\ advanced' = advanced + 1
    /\ pc' = Successor(pc)
    /\ UNCHANGED << envVars, err, model, torchVars, fsVars, total, status,
                    loopVars, inferVars, histVars >>

\* ------------------------------------------------------------ infer()

\* infer.py:66.
InferEval ==
    /\ pc = "infer_eval"
    /\ model' = [model EXCEPT !.training = FALSE]
    /\ pc' = "infer_enter"
    /\ UNCHANGED << envVars, err, torchVars, fsVars, progressVars, loopVars,
                    inferVars, histVars >>

\* infer.py:67, entering the with block.
InferNoGradEnter ==
    /\ pc = "infer_enter"
    /\ grad_prev' = grad_enabled
    /\ grad_enabled' = FALSE
    /\ pc' = "infer_forward"
    /\ UNCHANGED << envVars, err, model, fsVars, progressVars, loopVars,
                    inferVars, histVars >>

\* infer.py:68.
InferForward ==
    /\ pc = "infer_forward"
    /\ LET r == Forward(model, arg)
       IN  IF r.raised
           THEN exc' = r.err /\ pc' = "infer_exit" /\ output' = output
           ELSE output' = r.value /\ pc' = "infer_softmax" /\ exc' = exc
    /\ UNCHANGED << envVars, err, model, torchVars, fsVars, progressVars,
                    loopVars, arg, probabilities, predicted_class, ret,
                    histVars >>

\* infer.py:69: softmax over dim 1 raises on an output without that dim.
InferSoftmax ==
    /\ pc = "infer_softmax"
    /\ IF arg.fault = "softmax"
       THEN exc' = "IndexError" /\ pc' = "infer_exit"
            /\ probabilities' = probabilities
       ELSE probabilities' = Softmax(output) /\ pc' = "infer_argmax"
            /\ exc' = exc
    /\ UNCHANGED << envVars, err, model, torchVars, fsVars, progressVars,
                    loopVars, arg, output, predicted_class, ret, histVars >>

\* infer.py:70: .item() raises on an index tensor of more than one element.
InferArgmax ==
    /\ pc = "infer_argmax"
    /\ IF arg.fault = "argmax"
       THEN exc' = "RuntimeError" /\ predicted_class' = predicted_class
       ELSE predicted_class' = Argmax(probabilities) /\ exc' = exc
    /\ pc' = "infer_exit"
    /\ UNCHANGED << envVars, err, model, torchVars, fsVars, progressVars,
                    loopVars, arg, output, probabilities, ret, histVars >>

\* infer.py:67, leaving the with block.
InferNoGradExit ==
    /\ pc = "infer_exit"
    /\ grad_enabled' = NoGradExit(grad_prev, grad_enabled, exc)
    /\ IF exc # "none"
       THEN /\ ret' = [raised |-> TRUE, err |-> exc, label |-> "",
                       confidence |-> 0]
            /\ pc' = "infer_done"
       ELSE ret' = ret /\ pc' = "infer_lookup"
    /\ UNCHANGED << envVars, err, model, grad_prev, fsVars, progressVars,
                    loopVars, arg, output, probabilities, predicted_class,
                    exc, histVars >>

\* infer.py:72-76.
InferLookup ==
    /\ pc = "infer_lookup"
    /\ ret' = Lookup(probabilities, predicted_class)
    /\ pc' = "infer_done"
    /\ UNCHANGED << envVars, err, model, torchVars, fsVars, progressVars,
                    loopVars, arg, output, probabilities, predicted_class,
                    exc, histVars >>

InferStep ==
    \/ InferEval
    \/ InferNoGradEnter
    \/ InferForward
    \/ InferSoftmax
    \/ InferArgmax
    \/ InferNoGradExit
    \/ InferLookup

\* ------------------------------------------------ infer() on its own

\* Every score vector as long as the class label table.
TableVectors == [1..NumClasses -> 0..MaxScore]

\* Score vectors one shorter and one longer than the class label table.
MismatchedVectors ==
    [1..(NumClasses - 1) -> {0, MaxScore}] \cup [1..(NumClasses + 1) -> {0, MaxScore}]

\* Score vectors tried with every failure, gradient mode and device.
SampleVectors ==
    { Raised(NumClasses, {}), Raised(NumClasses, {3, 7}),
      Raised(NumClasses - 1, {9}), Raised(NumClasses + 1, {11}) }

\* The steps of infer() that can raise inside the with block.
InferFaults == {"none", "forward", "softmax", "argmax"}

\* The state at a call infer(model, image_tensor): either any score vector
\* on a sound call, or a sample vector with any failure, gradient mode,
\* model mode and placement of the tensor.
InitInfer ==
    /\ ckpt_path = "present"
    /\ input_dir = << >>
    /\ pc = "infer_eval"
    /\ err = "none"
    /\ output_folder = FALSE
    /\ out_files = {}
    /\ image_files = << >>
    /\ globbed = FALSE
    /\ total = -1
    /\ advanced = 0
    /\ status = << >>
    /\ i = 0
    /\ img = NoImage
    /\ img_tensor = NoTensor
    /\ output = << >>
    /\ probabilities = << >>
    /\ predicted_class = -1
    /\ exc = "none"
    /\ ret = NoRet
    /\ loaded = << >>
    /\ classified = << >>
    /\ writes = << >>
    /\ \/ /\ model = [src |-> "checkpoint", device |-> "cpu", training |-> TRUE]
          /\ grad_enabled = TRUE
          /\ grad_prev = TRUE
          /\ \E s \in TableVectors \cup MismatchedVectors :
                arg = [src |-> 0, device |-> "cpu", scores |-> s,
                       fault |-> "none"]
       \/ /\ \E d \in Devices, t \in BOOLEAN :
                model = [src |-> "checkpoint", device |-> d, training |-> t]
          /\ grad_enabled \in BOOLEAN
          /\ grad_prev \in BOOLEAN
          /\ \E s \in SampleVectors, d \in Devices, f \in InferFaults :
                arg = [src |-> 0, device |-> d, scores |-> s, fault |-> f]
    /\ at_call = [grad |-> grad_enabled, model |-> model, arg |-> arg]

\* ------------------------------------------------------ specifications

Next ==
    \/ Start
    \/ CheckCkptNone
    \/ CheckCkptExists
    \/ InstantiateModel
    \/ InstantiateCallbacksLoggers
    \/ LoadFromCheckpoint
    \/ SetInputFolder
    \/ MkOutputDir
    \/ GlobInput
    \/ AddTask
    \/ ForNext
    \/ LoadImage
    \/ CallInfer
    \/ InferEval
    \/ InferNoGradEnter
    \/ InferForward
    \/ InferSoftmax
    \/ InferArgmax
    \/ InferNoGradExit
    \/ InferLookup
    \/ ReturnInfer
    \/ SavePrediction
    \/ PrintStatus
    \/ Advance

\* A run of main().
Spec == Init /\ [][Next]_vars

\* One call of infer().
SpecInfer == InitInfer /\ [][InferStep]_vars

\* ------------------------------------------------------------ properties

Range(q) == { q[k] : k \in 1..Len(q) }

IsPrefix(a, b) == Len(a) <= Len(b) /\ \A k \in 1..Len(a) : a[k] = b[k]

StrictlyIncreasing(q) == \A a, b \in 1..Len(q) : a < b => q[a] < q[b]

\* main() has returned or an exception has left it.
Ended == pc \in {"done", "aborted"}

\* The positions of main() inside a call of infer().
InferPcs ==
    { "infer_eval", "infer_enter", "infer_forward", "infer_softmax",
      "infer_argmax", "infer_exit", "infer_lookup", "infer_done" }

\* The name ends, whatever the case of its letters, in .jpg, .jpeg or .png
\* after a non-empty stem.
HasImageExtension(name) ==
    \E suf \in KeptSuffixes :
        /\ Len(name) > Len(suf)
        /\ Lower(SubSeq(name, Len(name) - Len(suf) + 1, Len(name))) = suf

\* Entries of the input directory with an image extension.
KeptEntries == { k \in 1..Len(input_dir) : HasImageExtension(input_dir[k].name) }

\* Kept entries on which load_image, infer or save_prediction_image fails.
FailingEntries == { k \in KeptEntries : input_dir[k].fault # "none" }

\* The 1-based position of the largest score, the lowest one on a tie.
MaxScoreIndex(v) ==
    CHOOSE k \in 1..Len(v) :
        /\ \A j \in 1..Len(v) : v[j] <= v[k]
        /\ \A j \in 1..(k-1) : v[j] < v[k]

\* The artifact path the naming rule gives entry k.
ArtifactOf(k) == Stem(image_files[k].name) \o << "_prediction.png" >>

\* C1 (as claimed): once the listing is taken, a run with N kept files of
\* which K fail has, when it ends, handed every kept file to load_image and
\* written N-K artifacts; a failure never stops the later files.
C1_BatchIsolation ==
    (Ended /\ globbed) =>
        /\ Range(loaded) = KeptEntries
        /\ Len(writes) = Cardinality(KeptEntries) - Cardinality(FailingEntries)

\* C2: with cfg.ckpt_path unset or naming no file, the run never gets past
\* the two checkpoint checks: it can only end in ValueError or
\* FileNotFoundError, with no model built, no output folder, no listing
\* taken, and nothing loaded, classified, written or printed.
C2_MissingCheckpointFatal ==
    ckpt_path # "present" =>
        /\ pc \in {"start", "check_none", "check_exists", "aborted"}
        /\ pc = "aborted" =>
              err = (IF ckpt_path = "None" THEN "ValueError"
                     ELSE "FileNotFoundError")
        /\ model = NoModel
        /\ ~output_folder
        /\ out_files = {}
        /\ ~globbed
        /\ image_files = << >>
        /\ total = -1
        /\ loaded = << >> /\ classified = << >> /\ writes = << >>
        /\ status = << >> /\ advanced = 0

C2_Witness ==
    /\ ckpt_path = "missing"
    /\ input_dir # << >>
    /\ pc = "aborted"
    /\ err = "FileNotFoundError"

\* C3 (as claimed): at the end of a run an entry of the listing has been
\* handed to load_image if and only if it has an image extension.
C3_ExtensionFilter ==
    (Ended /\ globbed) =>
        \A k \in 1..Len(image_files) :
            k \in Range(loaded) <=> HasImageExtension(image_files[k].name)

\* The filter on the entries the loop has reached: only entries with an image
\* extension are loaded, written or reported, and every entry with an image
\* extension the loop has passed was loaded.
ExtensionFilterOnVisited ==
    /\ \A k \in Range(loaded) \cup Range(writes) \cup { l[1] : l \in Range(status) } :
          HasImageExtension(image_files[k].name)
    /\ \A f \in out_files : HasImageExtension(image_files[f.src].name)
    /\ \A k \in 1..(i - 1) :
          HasImageExtension(image_files[k].name) => k \in Range(loaded)

\* C4 (as claimed): the artifact of every file saved so far is still in the
\* output folder under <stem>_prediction.png, one artifact per saved file.
C4_ArtifactPerInput ==
    /\ \A k \in Range(writes) : [path |-> ArtifactOf(k), src |-> k] \in out_files
    /\ Cardinality(out_files) = Len(writes)

\* C4 (amended): every saved file with stem S is written to
\* S_prediction.png; the output folder holds exactly one artifact per
\* distinct stem among the saved files, and it is the artifact of the last
\* saved file with that stem (a later file with the same stem replaces it).
C4_ArtifactPerStem ==
    /\ { f.path : f \in out_files } = { ArtifactOf(k) : k \in Range(writes) }
    /\ \A f \in out_files :
          /\ f.src \in Range(writes)
          /\ f.path = ArtifactOf(f.src)
          /\ \A k \in Range(writes) : ArtifactOf(k) = f.path => k <= f.src
    /\ Cardinality(out_files) =
          Cardinality({ Stem(image_files[k].name) : k \in Range(writes) })

C4_Witness ==
    /\ pc = "done"
    /\ Len(writes) = 3
    /\ Cardinality(out_files) = 2

\* C5: a sound call of infer on a score vector as long as the label table
\* returns the label at the position of the largest score, the lowest
\* position on a tie, and as confidence the probability at that position,
\* which is the largest of the probabilities and lies in [0, 1].
C5_ClassifierResult ==
    (/\ pc = "infer_done"
     /\ Len(arg.scores) = NumClasses
     /\ arg.fault = "none"
     /\ arg.device = model.device) =>
        LET m == MaxScoreIndex(arg.scores)
        IN  /\ ~ret.raised
            /\ Len(probabilities) = NumClasses
            /\ ret.label = class_labels[m]
            /\ ret.label \in Range(class_labels)
            /\ ret.confidence = probabilities[m]
            /\ \A j \in 1..NumClasses : probabilities[j] <= ret.confidence
            /\ ret.confidence >= 0 /\ ret.confidence <= ProbScale

C5_Witness ==
    /\ pc = "infer_done"
    /\ Len(arg.scores) = NumClasses
    /\ arg.scores[3] = MaxScore /\ arg.scores[7] = MaxScore
    /\ ~ret.raised
    /\ ret.label = "Bulldog"

\* C6 (as claimed): a call of infer whose model output is not as long as
\* the label table fails with ShapeMismatchError and returns no pair.
C6_ShapeValidation ==
    (/\ pc = "infer_done"
     /\ Len(arg.scores) # NumClasses
     /\ arg.fault = "none"
     /\ arg.device = model.device) =>
        ret.raised /\ ret.err = "ShapeMismatchError"

\* C7: files are taken one at a time in listing order, and for each file
\* load_image precedes infer, infer precedes the artifact write, the write
\* precedes the status line and the status line precedes the advance; no
\* file is loaded before the file before it has been written, reported and
\* advanced.
C7_PerItemOrdering ==
    /\ StrictlyIncreasing(loaded)
    /\ \A k \in Range(loaded) : k <= i
    /\ IsPrefix(classified, loaded)
    /\ IsPrefix(writes, classified)
    /\ IsPrefix([k \in 1..Len(status) |-> status[k][1]], writes)
    /\ advanced <= Len(status)
    /\ Len(loaded) <= advanced + 1

C7_Witness ==
    /\ pc = "print"
    /\ Len(loaded) = 3
    /\ advanced = 2

\* C8: inside the with block of infer gradient tracking is off; once the
\* block is left, by a normal exit or by an exception raised in the forward
\* pass, softmax or argmax, it is back to what it was when infer was
\* entered; the tensor is the one passed in and the model differs from the
\* one passed in at most in being in inference mode.
C8_ScopedNoGrad ==
    pc \in InferPcs =>
        /\ pc \in {"infer_forward", "infer_softmax", "infer_argmax", "infer_exit"}
              => ~grad_enabled
        /\ pc \in {"infer_eval", "infer_enter", "infer_lookup", "infer_done"}
              => grad_enabled = at_call.grad
        /\ arg = at_call.arg
        /\ model.src = at_call.model.src
        /\ model.device = at_call.model.device
        /\ pc # "infer_eval" => ~model.training

C8_Witness ==
    /\ pc = "infer_done"
    /\ ret.raised
    /\ exc = "RuntimeError"
    /\ at_call.grad
    /\ grad_enabled

\* C9: whenever main is inside a call of infer, the tensor passed is the
\* current file's tensor on the model's device and the model is the one
\* load_from_checkpoint returned; from the listing on, the model main holds
\* is never replaced or moved.
C9_DevicePlacement ==
    /\ [](pc \in InferPcs =>
            /\ arg.device = model.device
            /\ arg.src = i
            /\ model.src = "checkpoint")
    /\ [][globbed => (model'.src = model.src /\ model'.device = model.device)]_vars

C9_Witness ==
    /\ pc = "infer_forward"
    /\ model.device = "cuda"
    /\ Len(classified) = 2

\* C10 (as claimed): at every point of a run the advances equal the status
\* lines printed and the artifacts written so far.
C10_CountsAlwaysEqual ==
    /\ advanced = Len(status)
    /\ advanced = Len(writes)

\* C10 (amended): the task total is the number of all entries of the
\* directory; the counter advances once per file that was loaded, classified
\* and saved, after the artifact write and the status line of that file, so
\* advances, status lines and artifact writes are equal except between a
\* file's write and its advance, where writes and then status lines are one
\* ahead; advances never exceed the total, and a run that ends normally has
\* advanced to the total exactly when every entry passed the filter.
C10_ProgressAccounting ==
    /\ total # -1 => total = Len(input_dir) /\ advanced <= total
    /\ total = -1 => advanced = 0
    /\ pc \notin {"print", "advance"} =>
          advanced = Len(status) /\ advanced = Len(writes)
    /\ pc = "print" => advanced = Len(status) /\ Len(writes) = advanced + 1
    /\ pc = "advance" =>
          Len(status) = advanced + 1 /\ Len(writes) = advanced + 1
    /\ advanced <= Len(classified) /\ advanced <= Len(loaded)
    /\ pc = "done" =>
          (advanced = total <=>
              \A k \in 1..Len(input_dir) : HasImageExtension(input_dir[k].name))

C10_Witness ==
    /\ pc = "done"
    /\ total = 3
    /\ advanced = 2

====
